---- MODULE Spec2Model ----
(***************************************************************************)
(* Pace-formation engine of app.py: calculate_pace_score,                  *)
(* apply_give_up_synergy, the sort, format_formation and                   *)
(* generate_pace_and_spread_comment, driven as the race loop of app.py     *)
(* drives them.                                                            *)
(*                                                                         *)
(* Numbers.  The program computes with floats.  Here every score, speed    *)
(* and position is an integer number of thousandths (10.0 is 10000, 0.05   *)
(* is 50), early_3f is in tenths of a second (37.5 s is 375) and weights   *)
(* are whole kilograms.  The inputs are chosen so that every quotient the  *)
(* program forms is exact at that resolution, except a mean over three     *)
(* races, which is floored to the thousandth.                              *)
(*                                                                         *)
(* Strings.  The Japanese literals are romanised:                          *)
(*   "HanaZettai" = ハナ絶対 (must lead)    "HikaeOK" = 控えOK (can yield)  *)
(*   "SashiOikomi" = 差し追込 (closer)      "Fumei" = 不明 (unknown)        *)
(*   "SenkoHikaeru" = 先行（控える）        "Shiba" = 芝   "Dirt" = ダート  *)
(*   "Ryo" 良  "Yaya" 稍  "Omo" 重  "Furyo" 不良                            *)
(* A special_flag string is the sequence of the fragments joined in it.    *)
(***************************************************************************)
EXTENDS Integers, Sequences, FiniteSets

VARIABLES
    horses,          \* the field: the list of horse dicts, mutated in place
    current_dist,    \* race context
    current_venue,
    current_track,
    total_horses,    \* the field size handed to calculate_pace_score
    pc,              \* the stage of the race loop that runs next
    idx,             \* position of the next horse of the scoring loop
    locals,          \* locals of the latest calculate_pace_score call
    sorted_horses,   \* sorted(horses, key=score)
    bands,           \* leaders / chasers / mid / backs of format_formation
    formation_text,  \* the formation string, as code points
    pace_comment     \* the summary returned by the narrative function

vars == <<horses, current_dist, current_venue, current_track, total_horses,
          pc, idx, locals, sorted_horses, bands, formation_text, pace_comment>>

----------------------------------------------------------------------------
(* Constants of the program *)

\* np.nan: a missing early_3f, and a speed computed from none
NaN == 0

JRA_VENUES ==
    {"Sapporo", "Hakodate", "Fukushima", "Niigata", "Tokyo",
     "Nakayama", "Chukyo", "Kyoto", "Hanshin", "Kokura"}

turf_start_dirt ==
    {<<"Tokyo", 1600>>, <<"Nakayama", 1200>>, <<"Hanshin", 1400>>,
     <<"Kyoto", 1400>>, <<"Niigata", 1200>>, <<"Chukyo", 1400>>}

uphill_starts ==
    {<<"Nakayama", 2000, "Shiba">>, <<"Hanshin", 2000, "Shiba">>,
     <<"Chukyo", 2000, "Shiba">>}

downhill_starts ==
    {<<"Kyoto", 1400, "Shiba">>, <<"Kyoto", 1600, "Shiba">>,
     <<"Niigata", 1000, "Shiba">>}

outside_adv_courses ==
    {<<"Nakayama", 1200, "Dirt">>, <<"Tokyo", 1600, "Dirt">>,
     <<"Hanshin", 1400, "Dirt">>, <<"Kyoto", 1400, "Dirt">>}

\* the clamp of the final score
ScoreFloor == 1000
ScoreCeiling == 18000
\* the score of a horse without history, before the post-position term
NeutralScore == 10000
\* max_early_speed of a horse without a usable early_3f
DefaultSpeed == 16000
\* h.get('max_early_speed', 16.1) in the narrative function
FallbackSpeed == 16100
\* band thresholds above the top score, and the leader cap
LeaderGap == 1200
ChaserGap == 4500
MidGap == 9500
LeaderCap == 3
\* chr(9311 + horse_number): the circled-digit glyph of a horse number
GlyphBase == 9311
\* code points of "(", ")" and " "
LParen == 40
RParen == 41
Space == 32

----------------------------------------------------------------------------
(* Helpers *)

Max(a, b) == IF a >= b THEN a ELSE b
Min(a, b) == IF a <= b THEN a ELSE b

RECURSIVE SumSeq(_)
SumSeq(s) == IF s = <<>> THEN 0 ELSE Head(s) + SumSeq(Tail(s))

RECURSIVE MaxSeq(_)
\* Series.max(): NaN entries are skipped, NaN when every entry is NaN
MaxSeq(s) == IF s = <<>> THEN NaN ELSE Max(Head(s), MaxSeq(Tail(s)))

RECURSIVE Orderings(_)
\* every listing of the set S
Orderings(S) ==
    IF S = {} THEN {<<>>}
    ELSE UNION {{<<x>> \o p : p \in Orderings(S \ {x})} : x \in S}

----------------------------------------------------------------------------
(* 1. Position signal extractors *)

calculate_early_pace_speed(row, dist) ==
    IF row.early_3f = NaN THEN NaN
    ELSE
    LET raw0 == 6000000 \div row.early_3f
        raw_speed == IF row.venue \notin JRA_VENUES THEN raw0 - 300 ELSE raw0
        condition_mod ==
            IF row.track_type = "Shiba"
            THEN (IF row.track_condition \in {"Omo", "Furyo"} THEN 150
                  ELSE IF row.track_condition = "Yaya" THEN 50 ELSE 0)
            ELSE IF row.track_type = "Dirt"
            THEN (IF row.track_condition \in {"Omo", "Furyo"} THEN -150
                  ELSE IF row.track_condition = "Yaya" THEN -50 ELSE 0)
            ELSE 0
        course_mod ==
            (IF row.track_type = "Dirt"
                /\ <<row.venue, row.distance>> \in turf_start_dirt
             THEN -150 ELSE 0)
            + (IF <<row.venue, row.distance, row.track_type>> \in uphill_starts
               THEN 150 ELSE 0)
            + (IF <<row.venue, row.distance, row.track_type>> \in downhill_starts
               THEN -150 ELSE 0)
        dist_diff == row.distance - dist
        distance_mod ==
            IF dist_diff > 0 THEN -((dist_diff * 5) \div 10)
            ELSE IF dist_diff < 0 THEN -(-dist_diff)
            ELSE 0
    IN  raw_speed + condition_mod + course_mod + distance_mod

is_good_run(r) ==
    r.finish_position <= 3
    \/ (r.popularity > r.finish_position /\ r.finish_position <= 5)

determine_running_style(past_df) ==
    IF past_df = <<>> THEN "Fumei"
    ELSE
    LET good_runs == SelectSeq(past_df, is_good_run)
        good_positions == [k \in 1..Len(good_runs) |-> good_runs[k].first_corner_pos]
    IN  IF good_runs = <<>> THEN "Fumei"
        ELSE IF \A k \in 1..Len(good_positions) : good_positions[k] = 1
        THEN "HanaZettai"
        ELSE IF \E k \in 1..Len(good_positions) :
                    2 <= good_positions[k] /\ good_positions[k] <= 5
        THEN "HikaeOK"
        ELSE "SashiOikomi"

\* success counted for a win only
is_success_win_only(r) ==
    r.finish_position = 1 \/ r.popularity > r.finish_position

is_success(r) ==
    r.finish_position <= 3 \/ r.popularity > r.finish_position

extract_jockey_target_position(past_races_df, venue) ==
    IF past_races_df = <<>> THEN 9500
    ELSE
    LET venue_success_races ==
            SelectSeq(past_races_df,
                      LAMBDA r : is_success(r) /\ r.venue = venue)
        success_races == SelectSeq(past_races_df, is_success)
    IN  IF venue_success_races # <<>>
        THEN venue_success_races[1].first_corner_pos * 1000
        ELSE IF success_races # <<>>
        THEN success_races[1].first_corner_pos * 1000
        ELSE (SumSeq([k \in 1..Len(past_races_df) |->
                        past_races_df[k].first_corner_pos]) * 1000)
                 \div Len(past_races_df)

----------------------------------------------------------------------------
(* 2. Pace score calculator *)

\* weight modifier that ignores the change of weight
weight_modifier_dropped(current_weight, last_weight) == 0

\* (horse['current_weight'] - last_race['weight']) * 0.25
weight_modifier_of(current_weight, last_weight) ==
    (current_weight - last_weight) * 250

\* the post-position term of a horse with history
base_mod_of(horse_number, dist, venue, track, total) ==
    IF <<venue, dist, track>> \in outside_adv_courses
    THEN (total - horse_number) * 20 - 150
    ELSE (horse_number - 1) * 50

\* the late-start block: the penalty and the flag it appends
late_start_block(last_race, horse_number, total) ==
    IF ~last_race.is_late_start THEN [penalty |-> 0, flag |-> <<>>]
    ELSE IF last_race.first_corner_pos <= 5
    THEN LET is_past_outside == last_race.past_frame >= 5
             is_current_inside == 2 * horse_number <= total
         IN  IF is_past_outside /\ is_current_inside
             THEN [penalty |-> 1000 + 1500, flag |-> <<"UchiwakuTsutsumare">>]
             ELSE IF is_past_outside /\ ~is_current_inside
             THEN [penalty |-> 1000 - 500, flag |-> <<"SotowakuRecover">>]
             ELSE [penalty |-> 1000, flag |-> <<>>]
    ELSE [penalty |-> 1000, flag |-> <<>>]

\* wait-and-see penalty gated the wrong way round: on a loss of weight
outer_wait_penalty_inverted(horse_number, total, weight_diff, running_style) ==
    LET is_outer_5 == horse_number > total - 5
    IN  IF is_outer_5 /\ weight_diff <= -2 /\ running_style # "HanaZettai"
        THEN 700 ELSE 0

\* the outside-post wait-and-see penalty
outer_wait_penalty(horse_number, total, weight_diff, running_style) ==
    LET is_outer_5 == horse_number > total - 5
    IN  IF is_outer_5 /\ weight_diff > -2 /\ running_style # "HanaZettai"
        THEN 700 ELSE 0

\* max(1.0, min(18.0, final_score))
clamp_score(final_score) == Max(ScoreFloor, Min(ScoreCeiling, final_score))

\* The value returned, the fields written to the horse, and the locals.
calculate_pace_score(horse, dist, venue, track, total) ==
    IF horse.past_races = <<>>
    THEN [ret |-> NeutralScore + (horse.horse_number - 1) * 50,
          special_flag |-> <<"DataFusoku">>,
          max_early_speed |-> DefaultSpeed,
          running_style |-> "Fumei",
          jockey_target |-> NaN,
          weight_modifier |-> 0,
          base_mod |-> (horse.horse_number - 1) * 50,
          late_start_penalty |-> 0,
          final_score |-> NeutralScore + (horse.horse_number - 1) * 50]
    ELSE
    LET past_df == horse.past_races
        running_style == determine_running_style(past_df)
        early_speed ==
            [k \in 1..Len(past_df) |->
                calculate_early_pace_speed(past_df[k], dist)]
        max_speed == MaxSeq(early_speed)
        speed_multiplier == IF track = "Dirt" /\ dist <= 1400 THEN 4 ELSE 3
        speed_advantage ==
            IF max_speed # NaN THEN (16800 - max_speed) * speed_multiplier ELSE 0
        jockey_target == extract_jockey_target_position(past_df, venue)
        base_position == ((jockey_target * 6) \div 10) + speed_advantage
        last_race == past_df[1]
        weight_modifier ==
            weight_modifier_of(horse.current_weight, last_race.weight)
        base_mod == base_mod_of(horse.horse_number, dist, venue, track, total)
        local == last_race.venue \notin JRA_VENUES
        longer == last_race.distance < dist /\ running_style # "HanaZettai"
        shorter == last_race.distance > dist
        late == late_start_block(last_race, horse.horse_number, total)
        weight_diff == horse.current_weight - last_race.weight
        wait == outer_wait_penalty(horse.horse_number, total, weight_diff,
                                   running_style)
        late_start_penalty ==
            (IF local THEN 1000 ELSE 0) + (IF longer THEN 500 ELSE 0)
            + (IF shorter THEN 300 ELSE 0) + late.penalty + wait
        special_flag ==
            (IF local THEN <<"ZensoChiho">> ELSE <<>>)
            \o (IF longer THEN <<"KyoriEncho">> ELSE <<>>)
            \o (IF shorter THEN <<"KyoriTanshuku">> ELSE <<>>)
            \o late.flag
            \o (IF wait # 0 THEN <<"SotowakuYosumi">> ELSE <<>>)
        final_score ==
            base_position + weight_modifier + base_mod + late_start_penalty
    IN  [ret |-> clamp_score(final_score),
         special_flag |-> special_flag,
         max_early_speed |-> IF max_speed # NaN THEN max_speed ELSE DefaultSpeed,
         running_style |-> running_style,
         jockey_target |-> jockey_target,
         weight_modifier |-> weight_modifier,
         base_mod |-> base_mod,
         late_start_penalty |-> late_start_penalty,
         final_score |-> final_score]

----------------------------------------------------------------------------
(* 3. Synergy adjuster *)

\* giving up to any rival with a lower score, whatever its post
give_up_any_lower(hs, k, is_outside_adv) ==
    \E j \in 1..Len(hs) :
        /\ hs[j].horse_number # hs[k].horse_number
        /\ hs[j].score < hs[k].score

\* giving up to any near-equal rival, whatever its post
give_up_no_tiebreak(hs, k, is_outside_adv) ==
    \E j \in 1..Len(hs) :
        /\ hs[j].horse_number # hs[k].horse_number
        /\ hs[k].score - hs[j].score >= 0

\* the inner loop over the other horses: does h give up the lead?
give_up(hs, k, is_outside_adv) ==
    \E j \in 1..Len(hs) :
        /\ hs[j].horse_number # hs[k].horse_number
        /\ LET diff == hs[k].score - hs[j].score
           IN  \/ diff >= 1000
               \/ /\ 0 <= diff
                  /\ diff < 1000
                  /\ IF is_outside_adv
                     THEN hs[j].horse_number > hs[k].horse_number
                     ELSE hs[j].horse_number < hs[k].horse_number

\* the two penalties the other way round
give_up_penalty_favoured_larger(horse_number, n, is_outside_adv) ==
    IF is_outside_adv /\ 2 * horse_number >= n THEN 1500 ELSE 1000

\* penalty = 1.0 if (is_outside_adv and horse_number >= len(horses)/2) else 1.5
give_up_penalty(horse_number, n, is_outside_adv) ==
    IF is_outside_adv /\ 2 * horse_number >= n THEN 1000 ELSE 1500

\* one turn of the outer loop: horse k, in place
synergy_step(hs, k, is_outside_adv) ==
    IF hs[k].running_style = "HanaZettai" /\ give_up(hs, k, is_outside_adv)
    THEN [hs EXCEPT
            ![k].score = @ + give_up_penalty(hs[k].horse_number, Len(hs),
                                             is_outside_adv),
            ![k].special_flag = Append(@, "WakusaHikaeru"),
            ![k].running_style = "SenkoHikaeru"]
    ELSE hs

RECURSIVE synergy_loop(_, _, _)
synergy_loop(hs, k, is_outside_adv) ==
    IF k > Len(hs) THEN hs
    ELSE synergy_loop(synergy_step(hs, k, is_outside_adv), k + 1, is_outside_adv)

apply_give_up_synergy(hs, venue, dist, track) ==
    synergy_loop(hs, 1, <<venue, dist, track>> \in outside_adv_courses)

----------------------------------------------------------------------------
(* 4. Sort, formation classifier, narrative summarizer *)

RECURSIVE insert_by_score(_, _)
\* h goes behind every horse whose score is not larger: the sort is stable
insert_by_score(h, s) ==
    IF s = <<>> THEN <<h>>
    ELSE IF Head(s).score <= h.score
    THEN <<Head(s)>> \o insert_by_score(h, Tail(s))
    ELSE <<h>> \o s

RECURSIVE sort_from(_, _, _)
sort_from(hs, k, acc) ==
    IF k > Len(hs) THEN acc
    ELSE sort_from(hs, k + 1, insert_by_score(hs[k], acc))

\* sorted(horses, key=lambda x: x['score'])
sorted_by_score(hs) == sort_from(hs, 1, <<>>)

glyph(h) == GlyphBase + h.horse_number

\* leader cap tested with <= : a fourth leader gets in
band_of_cap_off_by_one(score, top_score, n_leaders) ==
    IF score <= top_score + LeaderGap /\ n_leaders <= LeaderCap THEN "leaders"
    ELSE IF score <= top_score + ChaserGap THEN "chasers"
    ELSE IF score <= top_score + MidGap THEN "mid"
    ELSE "backs"

\* band thresholds tested with < : a horse on a threshold drops a band
band_of_strict(score, top_score, n_leaders) ==
    IF score < top_score + LeaderGap /\ n_leaders < LeaderCap THEN "leaders"
    ELSE IF score < top_score + ChaserGap THEN "chasers"
    ELSE IF score < top_score + MidGap THEN "mid"
    ELSE "backs"

\* the if / elif chain of the classifying loop, for one horse
band_of(score, top_score, n_leaders) ==
    IF score <= top_score + LeaderGap /\ n_leaders < LeaderCap THEN "leaders"
    ELSE IF score <= top_score + ChaserGap THEN "chasers"
    ELSE IF score <= top_score + MidGap THEN "mid"
    ELSE "backs"

RECURSIVE classify_loop(_, _, _)
classify_loop(hs, k, acc) ==
    IF k > Len(hs) THEN acc
    ELSE LET b == band_of(hs[k].score, hs[1].score, Len(acc.leaders))
         IN  classify_loop(hs, k + 1, [acc EXCEPT ![b] = Append(@, glyph(hs[k]))])

NoBands == [leaders |-> <<>>, chasers |-> <<>>, mid |-> <<>>, backs |-> <<>>]

RECURSIVE join_parts(_)
\* " ".join(parts)
join_parts(parts) ==
    IF parts = <<>> THEN <<>>
    ELSE IF Len(parts) = 1 THEN parts[1]
    ELSE parts[1] \o <<Space>> \o join_parts(Tail(parts))

formation_parts(b) ==
    (IF b.leaders # <<>> THEN << <<LParen>> \o b.leaders \o <<RParen>> >> ELSE <<>>)
    \o (IF b.chasers # <<>> THEN <<b.chasers>> ELSE <<>>)
    \o (IF b.mid # <<>> THEN <<b.mid>> ELSE <<>>)
    \o (IF b.backs # <<>> THEN <<b.backs>> ELSE <<>>)

\* the bands built by the loop and the string returned
format_formation(hs) ==
    IF hs = <<>> THEN [bands |-> NoBands, text |-> <<>>]
    ELSE LET b == classify_loop(hs, 1, NoBands)
         IN  [bands |-> b, text |-> join_parts(formation_parts(b))]

NoComment == [spread_text |-> "", base_cmt |-> "", leader_nums |-> <<>>]

\* leaders cut to the first two
comment_leaders_two(hs) ==
    LET within == SelectSeq(hs, LAMBDA h : h.score <= hs[1].score + LeaderGap)
    IN  SubSeq(within, 1, Min(Len(within), 2))

\* the horses with score <= top_score + 1.2, cut to the first three
comment_leaders(hs) ==
    LET within == SelectSeq(hs, LAMBDA h : h.score <= hs[1].score + LeaderGap)
    IN  SubSeq(within, 1, Min(Len(within), LeaderCap))

\* "ハイペース必至" HighPace, "乱ペース想定" RanPace, "ややハイペース想定"
\* YayaHighPace, "ややスローペース想定" YayaSlowPace, "スローペース想定"
\* SlowPace, "平均ペース想定" AveragePace; the spread texts are "縦長"
\* Tatenaga, "一団" Ichidan, "標準的な隊列" Hyojun
generate_pace_and_spread_comment(hs, track) ==
    IF Len(hs) < 3
    THEN [spread_text |-> "", base_cmt |-> "DataFusoku", leader_nums |-> <<>>]
    ELSE
    LET top_score == hs[1].score
        leaders == comment_leaders(hs)
        leader_nums == [k \in 1..Len(leaders) |-> glyph(leaders[k])]
        mid_idx == Min(Len(hs) - 1, (Len(hs) * 6) \div 10)
        spread_gap == hs[mid_idx + 1].score - top_score
        spread_text ==
            IF spread_gap >= 5000 THEN "Tatenaga"
            ELSE IF spread_gap <= 2500 THEN "Ichidan"
            ELSE "Hyojun"
        top3_speeds ==
            [k \in 1..Len(leaders) |->
                IF leaders[k].max_early_speed = NaN
                THEN FallbackSpeed ELSE leaders[k].max_early_speed]
        \* avg_top_speed against a threshold, as sum against threshold * len
        sum_top == SumSeq(top3_speeds)
        n_top == Len(top3_speeds)
        high_pace_threshold == IF track = "Shiba" THEN 16700 ELSE 16500
        slow_pace_threshold == IF track = "Shiba" THEN 16300 ELSE 16100
        must_lead_count ==
            Len(SelectSeq(leaders, LAMBDA h : h.running_style = "HanaZettai"))
        can_wait_count ==
            Len(SelectSeq(leaders, LAMBDA h : h.running_style = "HikaeOK"))
        base_cmt ==
            IF must_lead_count >= 2 /\ sum_top >= high_pace_threshold * n_top
            THEN "HighPace"
            ELSE IF must_lead_count >= 2 THEN "RanPace"
            ELSE IF must_lead_count = 1
                    /\ sum_top >= high_pace_threshold * n_top
            THEN "YayaHighPace"
            ELSE IF must_lead_count = 0 /\ can_wait_count >= 2
            THEN "YayaSlowPace"
            ELSE IF sum_top < slow_pace_threshold * n_top THEN "SlowPace"
            ELSE "AveragePace"
    IN  [spread_text |-> spread_text, base_cmt |-> base_cmt,
         leader_nums |-> leader_nums]

----------------------------------------------------------------------------
(* 5. Inputs: what the data acquisition hands to the engine *)

\* bounds of the model
MaxField == 3     \* horses in a field
MaxHist == 2      \* past races of a horse scored alone
MaxLen == 4       \* horses in a list handed to the classifier or summarizer

\* a past-race dict as fetch_real_data appends it
Race(venue, track_type, distance, track_condition, finish_position, popularity, early_3f, first_corner_pos, is_late_start, past_frame, weight) ==
    [venue |-> venue, track_type |-> track_type, distance |-> distance,
     track_condition |-> track_condition,
     finish_position |-> finish_position, popularity |-> popularity,
     early_3f |-> early_3f, first_corner_pos |-> first_corner_pos,
     is_late_start |-> is_late_start, past_frame |-> past_frame,
     weight |-> weight]

\* a horse dict as fetch_real_data appends it; running_style and
\* max_early_speed are keys the scoring adds ("" and NaN: not yet there)
Horse(horse_number, current_weight, past_races) ==
    [horse_number |-> horse_number, current_weight |-> current_weight,
     past_races |-> past_races, score |-> 0, special_flag |-> <<>>,
     running_style |-> "", max_early_speed |-> NaN]

\* a horse dict that already carries a score, a style and a speed
ScoredHorse(horse_number, score, running_style, max_early_speed) ==
    [horse_number |-> horse_number, current_weight |-> 480,
     past_races |-> <<>>, score |-> score, special_flag |-> <<>>,
     running_style |-> running_style, max_early_speed |-> max_early_speed]

\* current_weight as fetch_real_data sets it: the weight of the latest past
\* race, 480.0 when there is none
fetched_weight(past_races) ==
    IF past_races = <<>> THEN 480 ELSE past_races[1].weight

\* past races a horse scored alone may have run
ScoreRaces ==
    {Race("Nakayama", "Dirt", 1200, "Ryo", 1, 2, 375, 1, FALSE, 4, 480),
     Race("Tokyo", "Dirt", 1600, "Omo", 3, 2, 400, 4, FALSE, 4, 480),
     Race("Nakayama", "Shiba", 2000, "Furyo", 8, 9, 480, 12, FALSE, 6, 484),
     Race("Tokyo", "Shiba", 1600, "Yaya", 8, 2, NaN, 12, FALSE, 4, 480),
     Race("Kyoto", "Shiba", 1400, "Ryo", 6, 3, 250, 7, FALSE, 4, 478),
     Race("Nakayama", "Dirt", 1200, "Ryo", 5, 5, 600, 7, FALSE, 4, 480),
     Race("Ooi", "Dirt", 1200, "Yaya", 2, 1, 375, 1, FALSE, 4, 480),
     Race("Nakayama", "Dirt", 1800, "Ryo", 4, 6, NaN, 3, TRUE, 6, 480),
     Race("Tokyo", "Dirt", 1400, "Furyo", 9, 4, 400, 10, TRUE, 5, 480),
     Race("Tokyo", "Shiba", 1600, "Ryo", 1, 1, 384, 2, TRUE, 3, 482),
     Race("Tokyo", "Shiba", 1600, "Ryo", 7, 7, NaN, 5, FALSE, 4, 480)}

ScoreHistories == UNION {[1..n -> ScoreRaces] : n \in 0..MaxHist}

\* <<venue, distance, track>>
ScoreContexts == {<<"Nakayama", 1200, "Dirt">>, <<"Tokyo", 1600, "Shiba">>}

\* <<horse_number, total_horses>>
ScorePosts == {<<1, 8>>, <<6, 8>>}

\* contexts that break the input contract: a distance or a field size that
\* is not positive
MalformedContexts == {<<"Tokyo", 0, "Shiba">>, <<"Nakayama", -1200, "Dirt">>}
MalformedPosts == {<<1, 0>>, <<6, -8>>}

\* current_weight minus the weight of the last race, in kg
WeightDiffs == {-3, -2, -1, 0, 4}

\* histories of the horses of a fetched field
FieldHistories ==
    {<<>>,
     <<Race("Nakayama", "Dirt", 1200, "Ryo", 1, 2, 375, 1, FALSE, 4, 480)>>,
     <<Race("Tokyo", "Shiba", 1600, "Ryo", 2, 1, 400, 1, FALSE, 4, 476)>>,
     <<Race("Nakayama", "Dirt", 1200, "Omo", 3, 6, 600, 1, FALSE, 6, 500)>>,
     <<Race("Tokyo", "Shiba", 1600, "Yaya", 2, 4, 375, 3, TRUE, 6, 470)>>,
     <<Race("Ooi", "Dirt", 1600, "Ryo", 1, 1, NaN, 9, FALSE, 4, 480)>>}

FieldContexts == {<<"Nakayama", 1200, "Dirt">>, <<"Tokyo", 1600, "Shiba">>}

\* scores and styles of the fields handed to apply_give_up_synergy alone
SynergyScores == {3000, 3500, 4000, 4500, 17000}
SynergyStyles == {"HanaZettai", "HikaeOK"}
\* sorted lists handed to format_formation alone
FormationScores == {2000, 3200, 3201, 6500, 6501, 11500, 11501}
ScenarioScores == <<2000, 2300, 3000, 5000, 5200, 9000, 9100, 14000>>
ScenarioField ==
    [k \in 1..Len(ScenarioScores) |->
        ScoredHorse(k, ScenarioScores[k], "Fumei", DefaultSpeed)]
\* sorted lists handed to generate_pace_and_spread_comment alone: the first
\* horse has one speed, the others another
CommentScores == {2000, 2300, 3300, 5000, 8000}
CommentStyles == {"HanaZettai", "HikaeOK", "SashiOikomi"}
CommentSpeeds == {16000, 16800}
----------------------------------------------------------------------------
(* 6. The race loop *)

NoLocals ==
    [jockey_target |-> NaN, weight_modifier |-> 0, base_mod |-> 0,
     late_start_penalty |-> 0, final_score |-> 0]

Fresh ==
    /\ idx = 1
    /\ locals = NoLocals
    /\ bands = NoBands
    /\ formation_text = <<>>
    /\ pace_comment = NoComment

\* after fetch_real_data: a field and its context, nothing scored
Init ==
    /\ \E n \in 1..MaxField :
          \E o \in Orderings(1..n), h \in [1..n -> FieldHistories] :
             horses = [k \in 1..n |-> Horse(o[k], fetched_weight(h[k]), h[k])]
    /\ \E c \in FieldContexts :
          current_venue = c[1] /\ current_dist = c[2] /\ current_track = c[3]
    /\ total_horses = Len(horses)
    /\ sorted_horses = <<>>
    /\ pc = "score"
    /\ Fresh

\* horse['score'] = calculate_pace_score(horse, ...), for the next horse
ScoreHorse ==
    /\ pc = "score"
    /\ idx <= Len(horses)
    /\ LET r == calculate_pace_score(horses[idx], current_dist, current_venue,
                                     current_track, total_horses)
       IN  /\ horses' = [horses EXCEPT ![idx].score = r.ret,
                                       ![idx].special_flag = r.special_flag,
                                       ![idx].running_style = r.running_style,
                                       ![idx].max_early_speed = r.max_early_speed]
           /\ locals' = [jockey_target |-> r.jockey_target,
                         weight_modifier |-> r.weight_modifier,
                         base_mod |-> r.base_mod,
                         late_start_penalty |-> r.late_start_penalty,
                         final_score |-> r.final_score]
    /\ idx' = idx + 1
    /\ pc' = IF idx = Len(horses) THEN "synergy" ELSE "score"
    /\ UNCHANGED <<current_dist, current_venue, current_track, total_horses,
                   sorted_horses, bands, formation_text, pace_comment>>

\* horses = apply_give_up_synergy(horses, ...)
ApplyGiveUpSynergy ==
    /\ pc = "synergy"
    /\ horses' = apply_give_up_synergy(horses, current_venue, current_dist,
                                       current_track)
    /\ pc' = "sort"
    /\ UNCHANGED <<current_dist, current_venue, current_track, total_horses,
                   idx, locals, sorted_horses, bands, formation_text,
                   pace_comment>>

\* sorted_horses = sorted(horses, key=lambda x: x['score'])
SortHorses ==
    /\ pc = "sort"
    /\ sorted_horses' = sorted_by_score(horses)
    /\ pc' = "format"
    /\ UNCHANGED <<horses, current_dist, current_venue, current_track,
                   total_horses, idx, locals, bands, formation_text,
                   pace_comment>>

\* formation_text = format_formation(sorted_horses)
FormatFormation ==
    /\ pc = "format"
    /\ LET r == format_formation(sorted_horses)
       IN  bands' = r.bands /\ formation_text' = r.text
    /\ pc' = "comment"
    /\ UNCHANGED <<horses, current_dist, current_venue, current_track,
                   total_horses, idx, locals, sorted_horses, pace_comment>>

\* pace_comment = generate_pace_and_spread_comment(sorted_horses, track)
GeneratePaceComment ==
    /\ pc = "comment"
    /\ pace_comment' = generate_pace_and_spread_comment(sorted_horses,
                                                        current_track)
    /\ pc' = "done"
    /\ UNCHANGED <<horses, current_dist, current_venue, current_track,
                   total_horses, idx, locals, sorted_horses, bands,
                   formation_text>>

Next ==
    \/ ScoreHorse
    \/ ApplyGiveUpSynergy
    \/ SortHorses
    \/ FormatFormation
    \/ GeneratePaceComment

Spec == Init /\ [][Next]_vars

(* calculate_pace_score alone: one horse scored twice, the second time with
   a larger current_weight, under any context *)
InitScoreIn(contexts, posts) ==
    /\ \E p \in posts, h \in ScoreHistories, d \in WeightDiffs,
          e \in WeightDiffs :
          /\ d < e
          /\ horses = <<Horse(p[1], fetched_weight(h) + d, h),
                        Horse(p[1], fetched_weight(h) + e, h)>>
          /\ total_horses = p[2]
    /\ \E c \in contexts :
          current_venue = c[1] /\ current_dist = c[2] /\ current_track = c[3]
    /\ sorted_horses = <<>>
    /\ pc = "score"
    /\ Fresh

InitScore == InitScoreIn(ScoreContexts, ScorePosts)

SpecScore == InitScore /\ [][ScoreHorse]_vars

(* calculate_pace_score alone, under a context that breaks the input
   contract in its distance, its field size or both *)
InitMalformed ==
    \/ InitScoreIn(MalformedContexts, ScorePosts \cup MalformedPosts)
    \/ InitScoreIn(ScoreContexts, MalformedPosts)

SpecMalformed == InitMalformed /\ [][ScoreHorse]_vars

(* apply_give_up_synergy alone, on any scored field *)
InitSynergy ==
    /\ \E n \in 1..MaxField :
          \E o \in Orderings(1..n), sc \in [1..n -> SynergyScores],
             st \in [1..n -> SynergyStyles] :
             horses = [k \in 1..n |->
                          ScoredHorse(o[k], sc[k], st[k], DefaultSpeed)]
    /\ \E c \in FieldContexts :
          current_venue = c[1] /\ current_dist = c[2] /\ current_track = c[3]
    /\ total_horses = Len(horses)
    /\ sorted_horses = <<>>
    /\ pc = "synergy"
    /\ Fresh

SpecSynergy == InitSynergy /\ [][ApplyGiveUpSynergy]_vars

(* format_formation alone, on any sorted list *)
InitFormation ==
    /\ \/ sorted_horses = ScenarioField
       \/ \E n \in 0..MaxLen :
             \E o \in Orderings(1..n), sc \in [1..n -> FormationScores] :
                /\ \A k \in 1..(n - 1) : sc[k] <= sc[k + 1]
                /\ sorted_horses = [k \in 1..n |->
                      ScoredHorse(o[k], sc[k], "Fumei", DefaultSpeed)]
    /\ horses = sorted_horses
    /\ current_venue = "Tokyo" /\ current_dist = 1600 /\ current_track = "Shiba"
    /\ total_horses = Len(horses)
    /\ pc = "format"
    /\ Fresh

SpecFormation == InitFormation /\ [][FormatFormation]_vars

(* generate_pace_and_spread_comment alone, on any sorted list *)
InitComment ==
    /\ \E n \in 0..MaxLen :
          \E sc \in [1..n -> CommentScores], st \in [1..n -> CommentStyles],
             sp \in [1..2 -> CommentSpeeds] :
             /\ \A k \in 1..(n - 1) : sc[k] <= sc[k + 1]
             /\ sorted_horses = [k \in 1..n |->
                   ScoredHorse(k, sc[k], st[k],
                               IF k = 1 THEN sp[1] ELSE sp[2])]
    /\ horses = sorted_horses
    /\ current_venue = "Tokyo" /\ current_dist = 1600
    /\ current_track \in {"Shiba", "Dirt"}
    /\ total_horses = Len(horses)
    /\ pc = "comment"
    /\ Fresh

SpecComment == InitComment /\ [][GeneratePaceComment]_vars

----------------------------------------------------------------------------
(* 7. Properties *)

Scored == pc \in {"sort", "format", "comment", "done"}
WeightChange(h) == h.current_weight - fetched_weight(h.past_races)
OutsideAdv == <<current_venue, current_dist, current_track>> \in outside_adv_courses

(* C1: after calculate_pace_score on every horse and apply_give_up_synergy
   on the field, every score handed to the sort and the formatting lies in
   [1.0, 18.0]. *)
C1_ScoreBounded ==
    Scored =>
        \A k \in 1..Len(horses) :
            ScoreFloor <= horses[k].score /\ horses[k].score <= ScoreCeiling

(* C2: format_formation puts at most 3 horses in the leader band, and the
   top-scored horse is a leader whenever the list is not empty. *)
C2_LeaderCap ==
    pc = "comment" =>
        /\ Len(bands.leaders) <= 3
        /\ sorted_horses # <<>> =>
              /\ bands.leaders # <<>>
              /\ bands.leaders[1] = 9311 + sorted_horses[1].horse_number

\* four horses within 1.2 of the top, three of them made leaders
C2_Witness ==
    /\ pc = "comment"
    /\ Len(sorted_horses) = 4
    /\ sorted_horses[4].score <= sorted_horses[1].score + 1200
    /\ Len(bands.leaders) = 3
    /\ Len(bands.chasers) = 1

\* the band the rule gives horse k, given the bands of the horses before it
C3_Expected(k) ==
    LET top == sorted_horses[1].score
        score == sorted_horses[k].score
        before == {j \in 1..(k - 1) :
                     \E i \in 1..Len(bands.leaders) :
                        bands.leaders[i] = 9311 + sorted_horses[j].horse_number}
    IN  IF score <= top + 1200 /\ Cardinality(before) < 3 THEN "leaders"
        ELSE IF score <= top + 4500 THEN "chasers"
        ELSE IF score <= top + 9500 THEN "mid"
        ELSE "backs"

\* the horses of band b, in list order
C3_Members(b) ==
    LET in_band == SelectSeq(sorted_horses,
                             LAMBDA h : \E k \in 1..Len(sorted_horses) :
                                 sorted_horses[k] = h /\ C3_Expected(k) = b)
    IN  [i \in 1..Len(in_band) |-> 9311 + in_band[i].horse_number]

C3_Sep(a, b) ==
    IF a = <<>> THEN b ELSE IF b = <<>> THEN a ELSE a \o <<32>> \o b

(* C3: format_formation places each horse in exactly one band: leader if
   score <= top + 1.2 and fewer than 3 leaders were assigned before it, else
   chaser if score <= top + 4.5, else midfield if score <= top + 9.5, else
   backmarker; the scenario scores give leaders 2.0 2.3 3.0, chasers 5.0
   5.2, midfield 9.0 9.1, backmarkers 14.0; the formation string lists the
   bands in that order, leaders in parentheses, horses in score order. *)
C3_Bands ==
    pc = "comment" =>
        /\ \A b \in {"leaders", "chasers", "mid", "backs"} :
              bands[b] = C3_Members(b)
        /\ Len(bands.leaders) + Len(bands.chasers) + Len(bands.mid)
              + Len(bands.backs) = Len(sorted_horses)
        /\ formation_text =
              C3_Sep(C3_Sep(C3_Sep(IF bands.leaders = <<>> THEN <<>>
                                   ELSE <<40>> \o bands.leaders \o <<41>>,
                                   bands.chasers),
                            bands.mid),
                     bands.backs)
        /\ sorted_horses = ScenarioField =>
              bands = [leaders |-> <<9312, 9313, 9314>>,
                       chasers |-> <<9315, 9316>>,
                       mid |-> <<9317, 9318>>,
                       backs |-> <<9319>>]

\* the scenario list, formatted
C3_Witness ==
    /\ pc = "comment"
    /\ sorted_horses = ScenarioField
    /\ formation_text = <<40, 9312, 9313, 9314, 41, 32, 9315, 9316, 32,
                          9317, 9318, 32, 9319>>

(* C4: of two horses equal in history, number and context, the one with
   the larger current_weight never gets the lower score. *)
C4_WeightMonotone ==
    (pc = "synergy" /\ Len(horses) = 2
        /\ horses[1].current_weight <= horses[2].current_weight)
    => horses[1].score <= horses[2].score

\* the heavier twin also crosses the weight gate of the wait-and-see penalty
C4_Witness ==
    /\ pc = "synergy"
    /\ horses[1].past_races # <<>>
    /\ WeightChange(horses[1]) = -2
    /\ WeightChange(horses[2]) = -1
    /\ horses[2].score = horses[1].score + 250 + 700

C5_Case ==
    /\ pc = "synergy"
    /\ horses[1].past_races # <<>>
    /\ WeightChange(horses[1]) = 0
    /\ WeightChange(horses[2]) = 4

(* C5 as stated: 4 kg above the last-race weight gives a strictly greater
   score than no weight change, unless the score is clamped at the 18.0
   ceiling. *)
C5_StrictUnlessCeiling ==
    C5_Case => \/ horses[2].score > horses[1].score
               \/ horses[2].score = ScoreCeiling

(* C5 amended: 4 kg above the last-race weight never gives a lower score,
   and gives a strictly greater one unless the heavier horse's score sits on
   a bound of the clamp, the 18.0 ceiling or the 1.0 floor. *)
C5_StrictUnlessClamped ==
    C5_Case => /\ horses[2].score >= horses[1].score
               /\ \/ horses[2].score > horses[1].score
                  \/ horses[2].score = 18000
                  \/ horses[2].score = 1000

\* neither score clamped: the 4 kg show as exactly 1.0
C5_Witness ==
    /\ C5_Case
    /\ horses[1].score > 1000
    /\ horses[2].score < 18000
    /\ horses[2].score = horses[1].score + 1000

(* C6: a horse without history gets the neutral base score plus the
   post-position term a horse with history gets on that course (inverted on
   an outside-favouring course), a number in [1.0, 18.0], and the style
   unknown. *)
C6_EmptyHistory ==
    (idx > 1 /\ horses[1].past_races = <<>>) =>
        /\ horses[1].score =
              10000 + (IF OutsideAdv
                       THEN (total_horses - horses[1].horse_number) * 20 - 150
                       ELSE (horses[1].horse_number - 1) * 50)
        /\ 1000 <= horses[1].score /\ horses[1].score <= 18000
        /\ horses[1].running_style = "Fumei"

\* before the pass: must horse k of hs yield?
C7_Yields(hs, k) ==
    /\ hs[k].running_style = "HanaZettai"
    /\ \E j \in 1..Len(hs) :
          /\ j # k
          /\ \/ hs[j].score + 1000 <= hs[k].score
             \/ /\ hs[j].score <= hs[k].score
                /\ hs[k].score < hs[j].score + 1000
                /\ IF OutsideAdv
                   THEN hs[j].horse_number > hs[k].horse_number
                   ELSE hs[j].horse_number < hs[k].horse_number

C7_Marked(before, after) ==
    /\ after.running_style = "SenkoHikaeru"
    /\ after.score - before.score \in {1000, 1500}
    /\ after.special_flag = Append(before.special_flag, "WakusaHikaeru")

(* C7 as stated: every must-lead horse for which some other horse has a
   strictly lower score, by any margin and whatever the posts, is marked
   likely-to-yield: penalty added, label softened. *)
C7_AnyLowerRival ==
    [][(pc = "synergy" /\ pc' = "sort") =>
        \A k \in 1..Len(horses) :
            (/\ horses[k].running_style = "HanaZettai"
             /\ \E j \in 1..Len(horses) :
                   j # k /\ horses[j].score < horses[k].score)
            => C7_Marked(horses[k], horses'[k])]_vars

(* C7 amended: a must-lead horse is marked likely-to-yield (penalty added,
   label softened) when some other horse's score is lower by 1.0 or more,
   or is equal or lower by less than 1.0 while that horse is drawn on the
   contested side (a higher number on an outside-favouring course, a lower
   number elsewhere); every other horse is left as it was.  The scores
   compared are those before the pass. *)
C7_YieldRule ==
    [][(pc = "synergy" /\ pc' = "sort") =>
        /\ Len(horses') = Len(horses)
        /\ \A k \in 1..Len(horses) :
              IF C7_Yields(horses, k)
              THEN C7_Marked(horses[k], horses'[k])
              ELSE horses'[k] = horses[k]]_vars

\* one horse marked, another still must-lead behind an unmarked rival
C7_Witness ==
    /\ pc = "sort"
    /\ \E m \in 1..Len(horses) : horses[m].running_style = "SenkoHikaeru"
    /\ \E k, j \in 1..Len(horses) :
          /\ j # k
          /\ horses[k].running_style = "HanaZettai"
          /\ horses[j].special_flag = <<>>
          /\ horses[j].score < horses[k].score

C8_Contested == pace_comment.base_cmt \in {"HighPace", "RanPace"}

(* C8 as stated: two must-lead horses within 0.3 of each other anywhere in
   the sorted field give the fast/contested pace category. *)
C8_AnyTwoMustLead ==
    (/\ pc = "done"
     /\ \E i, j \in 1..Len(sorted_horses) :
           /\ i < j
           /\ sorted_horses[i].running_style = "HanaZettai"
           /\ sorted_horses[j].running_style = "HanaZettai"
           /\ sorted_horses[j].score - sorted_horses[i].score <= 300)
    => C8_Contested

(* C8 amended: in a sorted field of at least three horses, two must-lead
   horses within 0.3 of each other that are both in the leader band (among
   the first three horses and within 1.2 of the top score) give the
   fast/contested pace category, never the cooperative/slow one. *)
C8_TwoMustLeadLeaders ==
    (/\ pc = "done"
     /\ Len(sorted_horses) >= 3
     /\ \E i, j \in 1..3 :
           /\ i < j
           /\ sorted_horses[i].running_style = "HanaZettai"
           /\ sorted_horses[j].running_style = "HanaZettai"
           /\ sorted_horses[j].score - sorted_horses[i].score <= 300
           /\ sorted_horses[j].score <= sorted_horses[1].score + 1200)
    => C8_Contested

\* the second and third horse must lead, 0.3 apart, in the leader band
C8_Witness ==
    /\ pc = "done"
    /\ Len(sorted_horses) >= 3
    /\ sorted_horses[1].running_style = "HikaeOK"
    /\ sorted_horses[2].running_style = "HanaZettai"
    /\ sorted_horses[3].running_style = "HanaZettai"
    /\ sorted_horses[2].score = 2000
    /\ sorted_horses[3].score = 2300
    /\ pace_comment.base_cmt = "RanPace"

\* the positions of the past races, summed
C9_PosSum(past) ==
    LET S[k \in 0..Len(past)] ==
            IF k = 0 THEN 0 ELSE S[k - 1] + past[k].first_corner_pos
    IN  S[Len(past)]

C9_IsMean(target, past) ==
    /\ target * Len(past) <= 1000 * C9_PosSum(past)
    /\ 1000 * C9_PosSum(past) < (target + 1) * Len(past)

C9_Case == idx = 2 /\ horses[1].past_races # <<>>

(* C9 as stated: with success meaning finish_position == 1 or popularity >
   finish_position, a history without a success gives the mean
   first_corner_position, a history with one gives the first_corner_position
   of a success record. *)
C9_WinOrUpset ==
    C9_Case =>
        LET past == horses[1].past_races
            wins == {k \in 1..Len(past) :
                        \/ past[k].finish_position = 1
                        \/ past[k].popularity > past[k].finish_position}
        IN  IF wins = {}
            THEN C9_IsMean(locals.jockey_target, past)
            ELSE \E k \in wins :
                    locals.jockey_target = past[k].first_corner_pos * 1000

(* C9 amended: with success meaning finish_position <= 3 or popularity >
   finish_position, a history without a success gives the mean
   first_corner_position; a history with one gives the first_corner_position
   of the latest success at the current venue, or of the latest success when
   none was at the current venue. *)
C9_PlacedOrUpset ==
    C9_Case =>
        LET past == horses[1].past_races
            succ == {k \in 1..Len(past) :
                        \/ past[k].finish_position <= 3
                        \/ past[k].popularity > past[k].finish_position}
            here == {k \in succ : past[k].venue = current_venue}
            latest(S) == CHOOSE k \in S : \A m \in S : k <= m
        IN  IF here # {}
            THEN locals.jockey_target = past[latest(here)].first_corner_pos * 1000
            ELSE IF succ # {}
            THEN locals.jockey_target = past[latest(succ)].first_corner_pos * 1000
            ELSE C9_IsMean(locals.jockey_target, past)

\* two races without a success, run 12th and 5th at the first corner
C9_Witness ==
    /\ C9_Case
    /\ Len(horses[1].past_races) = 2
    /\ \A k \in 1..2 :
          /\ horses[1].past_races[k].finish_position > 3
          /\ horses[1].past_races[k].popularity
                <= horses[1].past_races[k].finish_position
    /\ horses[1].past_races[1].first_corner_pos = 12
    /\ horses[1].past_races[2].first_corner_pos = 5
    /\ locals.jockey_target = 8500

(* C10: under a malformed context (distance or field size not positive, or
   no horse) the core rejects: no score, formation or summary comes out. *)
C10_MalformedRejected ==
    (current_dist <= 0 \/ total_horses <= 0 \/ Len(horses) = 0) =>
        /\ idx = 1
        /\ \A k \in 1..Len(horses) :
              horses[k].running_style = "" /\ horses[k].score = 0
        /\ pace_comment = NoComment

\* horse k of the field is marked likely-to-yield by the pass
C11_Yielded(k) ==
    /\ horses[k].running_style = "HanaZettai"
    /\ horses'[k].running_style = "SenkoHikaeru"

\* the course favours the post of horse h: outside-favouring course, and
\* h drawn at or beyond the middle of the field (horse_number >= len / 2)
C11_Favoured(h) == OutsideAdv /\ 2 * h.horse_number >= Len(horses)

(* C11 as stated: the penalty added to a yielding must-lead horse whose
   post the course favours is larger than the penalty added to a yielding
   must-lead horse in any other case of the same field. *)
C11_FavouredLarger ==
    [][(pc = "synergy" /\ pc' = "sort") =>
        \A k, j \in 1..Len(horses) :
            (/\ C11_Yielded(k) /\ C11_Yielded(j)
             /\ C11_Favoured(horses[k]) /\ ~C11_Favoured(horses[j]))
            => horses'[k].score - horses[k].score
                  > horses'[j].score - horses[j].score]_vars

(* C11 amended: the penalty added to a yielding must-lead horse is 1.0 when
   the course favours its post (an outside-favouring course and
   horse_number >= len(horses) / 2) and 1.5 in every other case, so it is
   smaller, not larger, in the favoured case. *)
C11_FavouredSmaller ==
    [][(pc = "synergy" /\ pc' = "sort") =>
        /\ \A k \in 1..Len(horses) :
              C11_Yielded(k) =>
                  horses'[k].score - horses[k].score
                     = (IF C11_Favoured(horses[k]) THEN 1000 ELSE 1500)
        /\ \A k, j \in 1..Len(horses) :
              (/\ C11_Yielded(k) /\ C11_Yielded(j)
               /\ C11_Favoured(horses[k]) /\ ~C11_Favoured(horses[j]))
              => horses'[k].score - horses[k].score
                    < horses'[j].score - horses[j].score]_vars

\* an outside-favouring course; horses 1 and 2 of three both yielded from
\* 17.0: horse 2 (favoured) stands at 18.0, horse 1 (inner) at 18.5
C11_Witness ==
    /\ pc = "sort"
    /\ OutsideAdv
    /\ Len(horses) = 3
    /\ \E k, j \in 1..3 :
          /\ horses[k].horse_number = 2
          /\ horses[k].running_style = "SenkoHikaeru"
          /\ horses[k].score = 18000
          /\ horses[j].horse_number = 1
          /\ horses[j].running_style = "SenkoHikaeru"
          /\ horses[j].score = 18500

\* the field hs listed in the order o of its indices
C12_Reorder(hs, o) == [k \in 1..Len(hs) |-> hs[o[k]]]

C12_AsSet(hs) == {hs[k] : k \in 1..Len(hs)}

\* the field is listed by horse number; every other listing of it is one of
\* its reorderings
C12_ByNumber(hs) == \A k \in 1..Len(hs) : hs[k].horse_number = k

\* the pass under the course of the current race
C12_Pass(hs) ==
    apply_give_up_synergy(hs, current_venue, current_dist, current_track)

(* C12: for a field with unique horse numbers, the scores, style labels and
   flags left by apply_give_up_synergy are the same for every order in which
   the horses are listed and processed, although each penalty is written in
   place and seen by the comparisons of the horses processed later; each
   horse is penalised at most once, and a second application of the pass to
   the result changes nothing. *)
C12_OrderIndependent ==
    [][(pc = "synergy" /\ pc' = "sort") =>
        /\ C12_ByNumber(horses) =>
              \A o \in Orderings(1..Len(horses)) :
                  C12_AsSet(C12_Pass(C12_Reorder(horses, o)))
                     = C12_AsSet(horses')
        /\ \A k \in 1..Len(horses) :
              /\ horses'[k].score - horses[k].score \in {0, 1000, 1500}
              /\ Len(horses'[k].special_flag)
                    <= Len(horses[k].special_flag) + 1
        /\ C12_Pass(horses') = horses']_vars

\* two horses yielded, and the penalty written for the earlier one has put
\* it behind the later one, whose comparisons saw the raised score
C12_Witness ==
    /\ pc = "sort"
    /\ Len(horses) = 3
    /\ \E k, j \in 1..3 :
          /\ k < j
          /\ horses[k].running_style = "SenkoHikaeru"
          /\ horses[j].running_style = "SenkoHikaeru"
          /\ horses[k].score = 4500
          /\ horses[j].score = 5000
          /\ horses[k].horse_number > horses[j].horse_number

====
